---------------------------- MODULE Spec2Model ----------------------------
(***************************************************************************)
(* Model of controller/decision_engine.py: the six decision gates and the  *)
(* controller handle_user_query that chains them.                          *)
(*                                                                         *)
(* Python strings are sequences of one-character strings, so that          *)
(* str.lower, str.strip, str.split, len and the substring test `in` are    *)
(* computed on characters as the code computes them.  A float is an exact  *)
(* fraction <<n, d>> (n/d); document scores are given in hundredths.       *)
(***************************************************************************)
EXTENDS Integers, Sequences, FiniteSets, TLC

VARIABLES
    pc,                   \* position of the call in progress
    user_query,           \* argument user_query
    user_role,            \* argument user_role
    retrieval_result,     \* handle_user_query: retrieval_result
    response,             \* generate_controlled_answer: response of llm_client.generate
    generation_result,    \* handle_user_query: generation_result
    verification_result,  \* handle_user_query: verification_result
    result,               \* the dict handle_user_query returned
    log,                  \* gates evaluated and backend calls made, in order
    args,                 \* arguments of a gate function called on its own
    ret                   \* value a gate function called on its own returned

vars == <<pc, user_query, user_role, retrieval_result, response, generation_result,
          verification_result, result, log, args, ret>>

----------------------------------------------------------------------------
(* Bounds of the model *)

\* longest query, in phrases, given to gates 1-3 called on their own
MaxChunks == 2
\* most documents the retrieval backend returns
MaxDocs == 3

----------------------------------------------------------------------------
(* Python values and string methods *)

\* Python's None where a str is expected (no character is the string "None")
None == <<"None">>
\* Python's None where a refusal reason is expected
NoReason == "None"
\* a local variable not assigned yet
Unset == [unset |-> TRUE]

\* truth value of a str-or-None: `not x` is Falsy(x)
Falsy(x) == x = None \/ x = <<>>

Whitespace == {" ", "\t", "\n", "\r", "\f"}

UpperToLower ==
    [c \in {"A","B","C","D","E","F","G","H","I","J","K","L","M",
            "N","O","P","Q","R","S","T","U","V","W","X","Y","Z"} |->
        CASE c = "A" -> "a" [] c = "B" -> "b" [] c = "C" -> "c" [] c = "D" -> "d"
          [] c = "E" -> "e" [] c = "F" -> "f" [] c = "G" -> "g" [] c = "H" -> "h"
          [] c = "I" -> "i" [] c = "J" -> "j" [] c = "K" -> "k" [] c = "L" -> "l"
          [] c = "M" -> "m" [] c = "N" -> "n" [] c = "O" -> "o" [] c = "P" -> "p"
          [] c = "Q" -> "q" [] c = "R" -> "r" [] c = "S" -> "s" [] c = "T" -> "t"
          [] c = "U" -> "u" [] c = "V" -> "v" [] c = "W" -> "w" [] c = "X" -> "x"
          [] c = "Y" -> "y" [] c = "Z" -> "z"]

RECURSIVE lower(_)
\* str.lower()
lower(s) ==
    IF s = <<>> THEN <<>>
    ELSE <<IF s[1] \in DOMAIN UpperToLower THEN UpperToLower[s[1]] ELSE s[1]>> \o lower(Tail(s))

RECURSIVE lstrip(_)
\* str.lstrip()
lstrip(s) == IF s = <<>> \/ s[1] \notin Whitespace THEN s ELSE lstrip(Tail(s))

RECURSIVE rstrip(_)
\* str.rstrip()
rstrip(s) ==
    IF s = <<>> \/ s[Len(s)] \notin Whitespace THEN s ELSE rstrip(SubSeq(s, 1, Len(s) - 1))

\* str.strip()
strip(s) == rstrip(lstrip(s))

\* the substring test `needle in hay`
contains(needle, hay) ==
    \E i \in 0..(Len(hay) - Len(needle)) : SubSeq(hay, i + 1, i + Len(needle)) = needle

\* set(s.split()): the maximal runs of non-whitespace characters
split_set(s) ==
    {SubSeq(s, i, j) : <<i, j>> \in
        {p \in (1..Len(s)) \X (1..Len(s)) :
            /\ p[1] <= p[2]
            /\ \A k \in p[1]..p[2] : s[k] \notin Whitespace
            /\ (p[1] = 1 \/ s[p[1] - 1] \in Whitespace)
            /\ (p[2] = Len(s) \/ s[p[2] + 1] \in Whitespace)}}

RECURSIVE join_space(_)
\* " ".join(texts)
join_space(texts) ==
    IF Len(texts) = 0 THEN <<>>
    ELSE IF Len(texts) = 1 THEN texts[1]
    ELSE texts[1] \o <<" ">> \o join_space(Tail(texts))

\* any(signal in query for signal in signals): the loops `for s in list: if s in query`
any_in(signals, query) == \E k \in 1..Len(signals) : contains(signals[k], query)

----------------------------------------------------------------------------
(* Gate 1: is_policy_domain_query *)

rejection_signals == <<
    <<"s","h","o","u","l","d"," ","i">>,
    <<"d","o"," ","y","o","u"," ","t","h","i","n","k">>,
    <<"i","s"," ","i","t"," ","f","a","i","r">>,
    <<"w","h","a","t"," ","h","a","p","p","e","n","s"," ","i","f">>,
    <<"w","i","l","l"," ","i">>,
    <<"m","y"," ","s","a","l","a","r","y">>,
    <<"m","y"," ","m","a","n","a","g","e","r">>,
    <<"r","e","c","o","m","m","e","n","d">>,
    <<"o","p","i","n","i","o","n">>,
    <<"b","e","s","t"," ","w","a","y">>,
    <<"w","h","a","t"," ","s","h","o","u","l","d"," ","i"," ","d","o">> >>

policy_keywords == <<
    <<"p","o","l","i","c","y">>,
    <<"l","e","a","v","e">>,
    <<"v","a","c","a","t","i","o","n">>,
    <<"p","t","o">>,
    <<"p","r","o","b","a","t","i","o","n">>,
    <<"n","o","t","i","c","e"," ","p","e","r","i","o","d">>,
    <<"b","e","n","e","f","i","t","s">>,
    <<"i","n","s","u","r","a","n","c","e">>,
    <<"r","e","i","m","b","u","r","s","e","m","e","n","t">>,
    <<"c","o","m","p","l","i","a","n","c","e">>,
    <<"c","o","d","e"," ","o","f"," ","c","o","n","d","u","c","t">>,
    <<"w","o","r","k"," ","h","o","u","r","s">>,
    <<"r","e","m","o","t","e">>,
    <<"h","y","b","r","i","d">>,
    <<"h","r">>,
    <<"o","n","b","o","a","r","d","i","n","g">> >>

\* the allowlist is consulted before the rejection list
is_policy_domain_query_allow_first(q) ==
    IF Falsy(q) \/ Falsy(strip(q)) THEN FALSE
    ELSE LET query == strip(lower(q)) IN
         IF any_in(policy_keywords, query) THEN TRUE
         ELSE FALSE

is_policy_domain_query(q) ==
    IF Falsy(q) \/ Falsy(strip(q)) THEN FALSE
    ELSE LET query == strip(lower(q)) IN
         IF any_in(rejection_signals, query) THEN FALSE
         ELSE IF any_in(policy_keywords, query) THEN TRUE
         ELSE FALSE

----------------------------------------------------------------------------
(* Gate 2: is_role_authorized *)

KnownRoles == {"employee", "pre_joining_candidate"}

employee_only_topics == <<
    <<"d","i","s","c","i","p","l","i","n","a","r","y"," ","a","c","t","i","o","n">>,
    <<"i","n","t","e","r","n","a","l"," ","i","n","v","e","s","t","i","g","a","t","i","o","n">>,
    <<"p","e","r","f","o","r","m","a","n","c","e"," ","r","e","v","i","e","w">>,
    <<"a","p","p","r","a","i","s","a","l">>,
    <<"s","a","l","a","r","y"," ","s","t","r","u","c","t","u","r","e">>,
    <<"i","n","t","e","r","n","a","l"," ","r","e","i","m","b","u","r","s","e","m","e","n","t">>,
    <<"i","t"," ","a","c","c","e","s","s">>,
    <<"s","y","s","t","e","m"," ","a","c","c","e","s","s">>,
    <<"v","p","n">>,
    <<"i","n","t","e","r","n","a","l"," ","p","o","l","i","c","y">>,
    <<"e","s","c","a","l","a","t","i","o","n"," ","p","r","o","c","e","s","s">> >>

public_policy_topics == <<
    <<"l","e","a","v","e">>,
    <<"v","a","c","a","t","i","o","n">>,
    <<"p","r","o","b","a","t","i","o","n">>,
    <<"n","o","t","i","c","e"," ","p","e","r","i","o","d">>,
    <<"w","o","r","k"," ","h","o","u","r","s">>,
    <<"c","o","d","e"," ","o","f"," ","c","o","n","d","u","c","t">>,
    <<"b","e","n","e","f","i","t","s">>,
    <<"i","n","s","u","r","a","n","c","e">>,
    <<"o","n","b","o","a","r","d","i","n","g">>,
    <<"j","o","i","n","i","n","g"," ","d","o","c","u","m","e","n","t","s">> >>

\* the public topics are matched before the candidate restriction
is_role_authorized_public_first(q, role) ==
    IF Falsy(q) \/ Falsy(strip(q)) THEN FALSE
    ELSE IF role \notin KnownRoles THEN FALSE
    ELSE LET query == strip(lower(q)) IN
         IF any_in(public_policy_topics, query) THEN TRUE
         ELSE FALSE

\* the role is not checked against the two recognized values
is_role_authorized_any_role(q, role) ==
    IF Falsy(q) \/ Falsy(strip(q)) THEN FALSE
    ELSE LET query == strip(lower(q)) IN
         IF role = "pre_joining_candidate" /\ any_in(employee_only_topics, query) THEN FALSE
         ELSE IF any_in(public_policy_topics, query) THEN TRUE
         ELSE FALSE

is_role_authorized(q, role) ==
    IF Falsy(q) \/ Falsy(strip(q)) THEN FALSE
    ELSE IF role \notin KnownRoles THEN FALSE
    ELSE LET query == strip(lower(q)) IN
         IF role = "pre_joining_candidate" /\ any_in(employee_only_topics, query) THEN FALSE
         ELSE IF any_in(public_policy_topics, query) THEN TRUE
         ELSE FALSE

----------------------------------------------------------------------------
(* Gate 3: should_retrieve_documents *)

interpretive_signals == <<
    <<"w","h","y">>,
    <<"i","n","t","e","n","t">>,
    <<"r","e","a","s","o","n">>,
    <<"w","h","a","t"," ","h","a","p","p","e","n","s"," ","i","f">>,
    <<"e","x","p","l","a","i","n"," ","w","h","y">>,
    <<"s","h","o","u","l","d">> >>

vague_signals == <<
    <<"t","e","l","l"," ","m","e"," ","a","b","o","u","t">>,
    <<"o","v","e","r","v","i","e","w">>,
    <<"e","v","e","r","y","t","h","i","n","g">>,
    <<"a","l","l"," ","p","o","l","i","c","i","e","s">>,
    <<"g","e","n","e","r","a","l"," ","r","u","l","e","s">> >>

factual_signals == <<
    <<"w","h","a","t"," ","i","s">>,
    <<"h","o","w"," ","m","a","n","y">>,
    <<"h","o","w"," ","l","o","n","g">>,
    <<"w","h","e","n"," ","d","o","e","s">>,
    <<"p","r","o","c","e","s","s">>,
    <<"p","r","o","c","e","d","u","r","e">>,
    <<"s","t","e","p","s">>,
    <<"p","o","l","i","c","y"," ","o","n">>,
    <<"i","s"," ","t","h","e","r","e">> >>

should_retrieve_documents(q) ==
    IF Falsy(q) \/ Falsy(strip(q)) THEN FALSE
    ELSE LET query == strip(lower(q)) IN
         IF any_in(interpretive_signals, query) THEN FALSE
         ELSE IF any_in(vague_signals, query) THEN FALSE
         ELSE IF any_in(factual_signals, query) THEN TRUE
         ELSE FALSE

----------------------------------------------------------------------------
(* Inputs of the gates *)

\* phrases a caller's query is put together from
Phrases == {
    <<" ">>,
    <<"\t">>,
    <<"W","h","a","t"," ","i","s"," ","t","h","e"," ","p","r","o","b","a","t","i","o","n"," ","p","e","r","i","o","d"," ","p","o","l","i","c","y","?">>,
    <<"S","h","o","u","l","d"," ","I"," ","t","a","k","e"," ">>,
    <<"l","e","a","v","e">>,
    <<"W","h","a","t"," ","i","s"," ","t","h","e"," ","V","P","N"," ","a","c","c","e","s","s"," ","p","o","l","i","c","y","?">>,
    <<"p","e","r","f","o","r","m","a","n","c","e"," ","r","e","v","i","e","w">>,
    <<"p","r","o","b","a","t","i","o","n"," ","a","n","d"," ">>,
    <<"w","h","y"," ">>,
    <<"m","y"," ","m","a","n","a","g","e","r">>,
    <<"h","o","w"," ","l","o","n","g"," ","i","s"," ">>,
    <<"t","h","r","e","e">> }

RECURSIVE QueriesOf(_)
\* every concatenation of at most n phrases
QueriesOf(n) ==
    IF n = 0 THEN {<<>>}
    ELSE LET shorter == QueriesOf(n - 1) IN
         shorter \cup {q \o p : q \in shorter, p \in Phrases}

Queries == {None} \cup QueriesOf(MaxChunks)

Roles == {"employee", "pre_joining_candidate", "contractor"}

----------------------------------------------------------------------------
(* The gates 1-3 called on their own *)

Idle ==
    /\ retrieval_result = Unset /\ response = None /\ generation_result = Unset
    /\ verification_result = Unset /\ result = Unset /\ log = <<>>

InitGates ==
    /\ pc = "call"
    /\ user_query \in Queries
    /\ user_role \in Roles
    /\ args = Unset
    /\ ret = Unset
    /\ Idle

Return(fn, value) ==
    /\ pc = "call"
    /\ pc' = "done"
    /\ ret' = [fn |-> fn, value |-> value]
    /\ UNCHANGED <<user_query, user_role, retrieval_result, response, generation_result,
                   verification_result, result, log, args>>

CallDomain == Return("is_policy_domain_query", is_policy_domain_query(user_query))

CallRole == Return("is_role_authorized", is_role_authorized(user_query, user_role))

CallRetrieve == Return("should_retrieve_documents", should_retrieve_documents(user_query))

NextGates == CallDomain \/ CallRole \/ CallRetrieve

SpecGates == InitGates /\ [][NextGates]_vars

----------------------------------------------------------------------------
(* Floats as exact fractions <<n, d>> with d > 0 *)

RatAdd(a, b) == <<a[1] * b[2] + b[1] * a[2], a[2] * b[2]>>
RatMul(a, b) == <<a[1] * b[1], a[2] * b[2]>>
RatLt(a, b) == a[1] * b[2] < b[1] * a[2]
RatLe(a, b) == a[1] * b[2] <= b[1] * a[2]
RatEq(a, b) == a[1] * b[2] = b[1] * a[2]
Zero == <<0, 1>>

----------------------------------------------------------------------------
(* Gate 4: retrieve_and_evaluate_evidence, after vector_store.search returned *)

MIN_DOCS == 2
\* 0.6, in hundredths like the scores
MIN_SCORE == 60

RECURSIVE sum(_)
sum(scores) == IF scores = <<>> THEN 0 ELSE Head(scores) + sum(Tail(scores))

max(scores) == CHOOSE m \in {scores[i] : i \in DOMAIN scores} :
                   \A i \in DOMAIN scores : scores[i] <= m

\* one of the two sufficiency conditions is enough
evaluate_evidence_either(retrieved_docs) ==
    IF retrieved_docs = <<>>
    THEN [documents |-> <<>>, evidence_score |-> Zero, sufficient |-> FALSE]
    ELSE LET scores == [i \in DOMAIN retrieved_docs |-> retrieved_docs[i].score] IN
         [documents |-> retrieved_docs,
          evidence_score |-> <<sum(scores), 100 * Len(scores)>>,
          sufficient |-> (Len(retrieved_docs) >= MIN_DOCS \/ max(scores) >= MIN_SCORE)]

evaluate_evidence(retrieved_docs) ==
    IF retrieved_docs = <<>>
    THEN [documents |-> <<>>, evidence_score |-> Zero, sufficient |-> FALSE]
    ELSE LET scores == [i \in DOMAIN retrieved_docs |-> retrieved_docs[i].score] IN
         [documents |-> retrieved_docs,
          evidence_score |-> <<sum(scores), 100 * Len(scores)>>,
          sufficient |-> (Len(retrieved_docs) >= MIN_DOCS /\ max(scores) >= MIN_SCORE)]

----------------------------------------------------------------------------
(* Gate 5: generate_controlled_answer, after llm_client.generate returned *)

INSUFFICIENT_EVIDENCE == <<"I","N","S","U","F","F","I","C","I","E","N","T","_","E","V","I","D","E","N","C","E">>

classify_response(resp, evidence_documents) ==
    IF Falsy(resp) \/ strip(resp) = INSUFFICIENT_EVIDENCE
    THEN [answer |-> None, used_documents |-> evidence_documents,
          generation_status |-> "INSUFFICIENT_EVIDENCE"]
    ELSE [answer |-> resp, used_documents |-> evidence_documents,
          generation_status |-> "GENERATED"]

----------------------------------------------------------------------------
(* Gate 6: verify_answer_grounding_and_confidence *)

CONFIDENCE_THRESHOLD == <<7, 10>>
EVIDENCE_WEIGHT == <<6, 10>>
OVERLAP_WEIGHT == <<4, 10>>

\* the two weights exchanged
confidence_of_swapped(evidence_score, overlap_score) ==
    RatAdd(RatMul(OVERLAP_WEIGHT, evidence_score), RatMul(EVIDENCE_WEIGHT, overlap_score))

\* confidence_score = (0.6 * evidence_score) + (0.4 * overlap_score)
confidence_of(evidence_score, overlap_score) ==
    RatAdd(RatMul(EVIDENCE_WEIGHT, evidence_score), RatMul(OVERLAP_WEIGHT, overlap_score))

\* doc.get("text", "")
get_text(doc) == IF doc.has_text THEN doc.text ELSE <<>>

doc_text_of(evidence_documents) ==
    lower(join_space([i \in DOMAIN evidence_documents |-> get_text(evidence_documents[i])]))

overlap_score_of(generated_answer, evidence_documents) ==
    LET answer_tokens == split_set(lower(generated_answer))
        doc_tokens == split_set(doc_text_of(evidence_documents))
        n == Cardinality(answer_tokens)
    IN  <<Cardinality(answer_tokens \cap doc_tokens), IF n >= 1 THEN n ELSE 1>>

\* the length rule reports the blended confidence instead of the overlap
verify_length_rule_blended(generated_answer, evidence_documents, evidence_score) ==
    IF Falsy(generated_answer) \/ strip(generated_answer) = INSUFFICIENT_EVIDENCE
    THEN [final_decision |-> "REFUSE", confidence_score |-> Zero,
          refusal_reason |-> "Model reported insufficient evidence"]
    ELSE LET doc_text == doc_text_of(evidence_documents)
             overlap_score == overlap_score_of(generated_answer, evidence_documents)
             confidence_score == confidence_of(evidence_score, overlap_score)
         IN  IF split_set(doc_text) = {}
             THEN [final_decision |-> "REFUSE", confidence_score |-> Zero,
                   refusal_reason |-> "No document text available for grounding"]
             ELSE IF Len(generated_answer) > 2 * Len(doc_text)
             THEN [final_decision |-> "REFUSE", confidence_score |-> confidence_score,
                   refusal_reason |-> "Answer length exceeds supporting evidence"]
             ELSE IF RatLt(confidence_score, CONFIDENCE_THRESHOLD)
             THEN [final_decision |-> "REFUSE", confidence_score |-> confidence_score,
                   refusal_reason |-> "Grounding confidence below threshold"]
             ELSE [final_decision |-> "ANSWER", confidence_score |-> confidence_score,
                   refusal_reason |-> NoReason]

verify_answer_grounding_and_confidence(generated_answer, evidence_documents, evidence_score) ==
    IF Falsy(generated_answer) \/ strip(generated_answer) = INSUFFICIENT_EVIDENCE
    THEN [final_decision |-> "REFUSE", confidence_score |-> Zero,
          refusal_reason |-> "Model reported insufficient evidence"]
    ELSE LET doc_text == doc_text_of(evidence_documents)
             overlap_score == overlap_score_of(generated_answer, evidence_documents)
             confidence_score == confidence_of(evidence_score, overlap_score)
         IN  IF split_set(doc_text) = {}
             THEN [final_decision |-> "REFUSE", confidence_score |-> Zero,
                   refusal_reason |-> "No document text available for grounding"]
             ELSE IF Len(generated_answer) > 2 * Len(doc_text)
             THEN [final_decision |-> "REFUSE", confidence_score |-> overlap_score,
                   refusal_reason |-> "Answer length exceeds supporting evidence"]
             ELSE IF RatLt(confidence_score, CONFIDENCE_THRESHOLD)
             THEN [final_decision |-> "REFUSE", confidence_score |-> confidence_score,
                   refusal_reason |-> "Grounding confidence below threshold"]
             ELSE [final_decision |-> "ANSWER", confidence_score |-> confidence_score,
                   refusal_reason |-> NoReason]

----------------------------------------------------------------------------
(* What the two backends may return *)

Doc(text, score) == [has_text |-> TRUE, text |-> text, score |-> score]

\* the documents of the index: one without a "text" key, one with empty text
Docs == {
    [has_text |-> FALSE, text |-> <<>>, score |-> 50],
    Doc(<<"a"," ","b"," ","c"," ","d","d">>, 70),
    Doc(<<>>, 65),
    Doc(<<"e","e"," ","f">>, 60) }

RECURSIVE SeqsOf(_, _)
\* the sequences of at most n elements of S
SeqsOf(S, n) ==
    IF n = 0 THEN {<<>>}
    ELSE LET shorter == SeqsOf(S, n - 1) IN
         shorter \cup {Append(s, x) : s \in shorter, x \in S}

SearchResults == SeqsOf(Docs, MaxDocs)

\* raw responses of llm_client.generate
Responses == {
    None,
    <<>>,
    INSUFFICIENT_EVIDENCE,
    <<" ","I","N","S","U","F","F","I","C","I","E","N","T","_","E","V","I","D","E","N","C","E","\n">>,
    <<"a"," ","d","d"," ","e","e">>,
    <<"a"," ","b"," ","c"," ","x">>,
    <<"A"," ","B">>,
    <<"a"," ","x">>,
    <<"a"," ","b"," ","c"," ","d","d"," ","x">>,
    <<"x"," ","y">>,
    <<"e","e"," ","f","f"," ","e","e"," ","f","f"," ","e","e"," ","f","f">> }

----------------------------------------------------------------------------
(* The controller: handle_user_query *)

PipelineQueries == {
    None,
    <<>>,
    <<" "," ","\t">>,
    <<"W","h","a","t"," ","i","s"," ","t","h","e"," ","p","r","o","b","a","t","i","o","n"," ","p","e","r","i","o","d"," ","p","o","l","i","c","y","?">>,
    <<"S","h","o","u","l","d"," ","I"," ","t","a","k","e"," ","l","e","a","v","e"," ","b","e","f","o","r","e"," ","m","y"," ","m","a","n","a","g","e","r"," ","a","p","p","r","o","v","e","s","?">>,
    <<"W","h","a","t"," ","i","s"," ","t","h","e"," ","V","P","N"," ","a","c","c","e","s","s"," ","p","o","l","i","c","y","?">>,
    <<"s","h","o","u","l","d"," ","i"," ","t","a","k","e"," ","l","e","a","v","e">>,
    <<"p","r","o","b","a","t","i","o","n"," ","a","n","d"," ","p","e","r","f","o","r","m","a","n","c","e"," ","r","e","v","i","e","w">>,
    <<"H","o","w"," ","l","o","n","g"," ","i","s"," ","p","r","o","b","a","t","i","o","n"," ","a","n","d"," ","w","h","e","n"," ","d","o","e","s"," ","t","h","e"," ","p","e","r","f","o","r","m","a","n","c","e"," ","r","e","v","i","e","w"," ","s","t","a","r","t">>,
    <<"w","h","y"," ","i","s"," ","t","h","e","r","e"," ","a"," ","l","e","a","v","e"," ","p","o","l","i","c","y">>,
    <<"t","e","l","l"," ","m","e"," ","a","b","o","u","t"," ","l","e","a","v","e">>,
    <<"h","e","l","l","o">>,
    <<"l","e","a","v","e">>,
    <<" "," ","H","o","w"," ","l","o","n","g"," ","i","s"," ","t","h","e"," ","n","o","t","i","c","e"," ","p","e","r","i","o","d","?","\n">> }

PipelineRoles == {"employee", "pre_joining_candidate", "contractor", "EMPLOYEE"}

Init ==
    /\ pc = "gate1"
    /\ user_query \in PipelineQueries
    /\ user_role \in PipelineRoles
    /\ retrieval_result = Unset
    /\ response = None
    /\ generation_result = Unset
    /\ verification_result = Unset
    /\ result = Unset
    /\ log = <<>>
    /\ args = Unset
    /\ ret = Unset

Refuse(reason, confidence) ==
    [decision |-> "REFUSE", answer |-> None, refusal_reason |-> reason,
     confidence_score |-> confidence]

\* Gate 1 accepts or the call returns
Gate1 ==
    /\ pc = "gate1"
    /\ log' = Append(log, "gate1")
    /\ IF ~is_policy_domain_query(user_query)
       THEN pc' = "returned" /\ result' = Refuse("Query outside policy domain", Zero)
       ELSE pc' = "gate2" /\ result' = result
    /\ UNCHANGED <<user_query, user_role, retrieval_result, response, generation_result,
                   verification_result, args, ret>>

\* the refusal of gate 2 is built but not returned
Gate2_falls_through ==
    /\ pc = "gate2"
    /\ log' = Append(log, "gate2")
    /\ pc' = "gate3" /\ result' = result
    /\ UNCHANGED <<user_query, user_role, retrieval_result, response, generation_result,
                   verification_result, args, ret>>

Gate2 ==
    /\ pc = "gate2"
    /\ log' = Append(log, "gate2")
    /\ IF ~is_role_authorized(user_query, user_role)
       THEN pc' = "returned"
            /\ result' = Refuse("User not authorized for this policy query", Zero)
       ELSE pc' = "gate3" /\ result' = result
    /\ UNCHANGED <<user_query, user_role, retrieval_result, response, generation_result,
                   verification_result, args, ret>>

\* the refusal of gate 3 is built but not returned
Gate3_falls_through ==
    /\ pc = "gate3"
    /\ log' = Append(log, "gate3")
    /\ pc' = "gate4" /\ result' = result
    /\ UNCHANGED <<user_query, user_role, retrieval_result, response, generation_result,
                   verification_result, args, ret>>

Gate3 ==
    /\ pc = "gate3"
    /\ log' = Append(log, "gate3")
    /\ IF ~should_retrieve_documents(user_query)
       THEN pc' = "returned"
            /\ result' = Refuse("Query not suitable for document-based answering", Zero)
       ELSE pc' = "gate4" /\ result' = result
    /\ UNCHANGED <<user_query, user_role, retrieval_result, response, generation_result,
                   verification_result, args, ret>>

\* Gate 4, vector_store.search returns: the evidence is evaluated
SearchReturns ==
    /\ pc = "gate4"
    /\ \E retrieved_docs \in SearchResults :
         /\ retrieval_result' = evaluate_evidence(retrieved_docs)
         /\ log' = log \o <<"search", "gate4">>
         /\ IF ~retrieval_result'.sufficient
            THEN pc' = "returned"
                 /\ result' = Refuse("Insufficient policy evidence",
                                     retrieval_result'.evidence_score)
            ELSE pc' = "gate5" /\ result' = result
    /\ UNCHANGED <<user_query, user_role, response, generation_result,
                   verification_result, args, ret>>

\* a failed search is taken for an empty result
SearchRaises_as_no_documents ==
    /\ pc = "gate4"
    /\ retrieval_result' = evaluate_evidence(<<>>)
    /\ log' = log \o <<"search", "raise">>
    /\ pc' = "returned"
    /\ result' = Refuse("Insufficient policy evidence", Zero)
    /\ UNCHANGED <<user_query, user_role, response, generation_result,
                   verification_result, args, ret>>

\* Gate 4, vector_store.search raises: nothing catches it, the call ends
SearchRaises ==
    /\ pc = "gate4"
    /\ log' = log \o <<"search", "raise">>
    /\ pc' = "raised"
    /\ UNCHANGED <<user_query, user_role, retrieval_result, response, generation_result,
                   verification_result, result, args, ret>>

\* Gate 5, llm_client.generate returns: the response is classified
GenerateReturns ==
    /\ pc = "gate5"
    /\ IF retrieval_result.documents = <<>>
       THEN /\ response' = response
            /\ generation_result' = [answer |-> None, used_documents |-> <<>>,
                                     generation_status |-> "INSUFFICIENT_EVIDENCE"]
            /\ log' = Append(log, "gate5")
       ELSE \E r \in Responses :
            /\ response' = r
            /\ generation_result' = classify_response(r, retrieval_result.documents)
            /\ log' = log \o <<"generate", "gate5">>
    /\ IF generation_result'.generation_status # "GENERATED"
       THEN pc' = "returned"
            /\ result' = Refuse("Model could not generate grounded answer",
                                retrieval_result.evidence_score)
       ELSE pc' = "gate6" /\ result' = result
    /\ UNCHANGED <<user_query, user_role, retrieval_result, verification_result, args, ret>>

\* Gate 5, llm_client.generate raises: nothing catches it, the call ends
GenerateRaises ==
    /\ pc = "gate5"
    /\ retrieval_result.documents # <<>>
    /\ log' = log \o <<"generate", "raise">>
    /\ pc' = "raised"
    /\ UNCHANGED <<user_query, user_role, retrieval_result, response, generation_result,
                   verification_result, result, args, ret>>

\* Gate 6 and the final return
Verify ==
    /\ pc = "gate6"
    /\ verification_result' =
           verify_answer_grounding_and_confidence(generation_result.answer,
                                                  retrieval_result.documents,
                                                  retrieval_result.evidence_score)
    /\ log' = Append(log, "gate6")
    /\ pc' = "returned"
    /\ IF verification_result'.final_decision # "ANSWER"
       THEN result' = Refuse(verification_result'.refusal_reason,
                             verification_result'.confidence_score)
       ELSE result' = [decision |-> "ANSWER", answer |-> generation_result.answer,
                       refusal_reason |-> NoReason,
                       confidence_score |-> verification_result'.confidence_score]
    /\ UNCHANGED <<user_query, user_role, retrieval_result, response, generation_result,
                   args, ret>>

Next ==
    \/ Gate1 \/ Gate2 \/ Gate3
    \/ SearchReturns \/ SearchRaises
    \/ GenerateReturns \/ GenerateRaises
    \/ Verify

Spec == Init /\ [][Next]_vars

----------------------------------------------------------------------------
(* retrieve_and_evaluate_evidence called on its own *)

Scores == {0, 50, 59, 60, 61, 90, 100}

InitEvidence ==
    /\ pc = "call"
    /\ user_query = None
    /\ user_role = "employee"
    /\ args \in {[retrieved_docs |-> d] :
                    d \in SeqsOf({[has_text |-> FALSE, text |-> <<>>, score |-> s] : s \in Scores},
                                 MaxDocs)}
    /\ ret = Unset
    /\ Idle

CallEvidence ==
    /\ pc = "call"
    /\ pc' = "done"
    /\ ret' = [fn |-> "retrieve_and_evaluate_evidence",
               value |-> evaluate_evidence(args.retrieved_docs)]
    /\ UNCHANGED <<user_query, user_role, retrieval_result, response, generation_result,
                   verification_result, result, log, args>>

NextEvidence == CallEvidence

SpecEvidence == InitEvidence /\ [][NextEvidence]_vars

----------------------------------------------------------------------------
(* verify_answer_grounding_and_confidence called on its own *)

VerifyDocs == {
    [has_text |-> FALSE, text |-> <<>>, score |-> 90],
    Doc(<<"a"," ","b"," ","c">>, 70),
    Doc(<<"d","d">>, 65) }

EvidenceScores == {Zero, <<65, 100>>, <<8, 10>>, <<9, 10>>, <<1, 1>>}

InitVerify ==
    /\ pc = "call"
    /\ user_query = None
    /\ user_role = "employee"
    /\ args \in [generated_answer : Responses,
                 evidence_documents : SeqsOf(VerifyDocs, MaxDocs),
                 evidence_score : EvidenceScores]
    /\ ret = Unset
    /\ Idle

CallVerify ==
    /\ pc = "call"
    /\ pc' = "done"
    /\ ret' = [fn |-> "verify_answer_grounding_and_confidence",
               value |-> verify_answer_grounding_and_confidence(args.generated_answer,
                                                                args.evidence_documents,
                                                                args.evidence_score)]
    /\ UNCHANGED <<user_query, user_role, retrieval_result, response, generation_result,
                   verification_result, result, log, args>>

NextVerify == CallVerify

SpecVerify == InitVerify /\ [][NextVerify]_vars

----------------------------------------------------------------------------
(* Properties *)

InLog(e) == \E i \in DOMAIN log : log[i] = e

\* the gates and backend calls of the call so far, without a final failure mark
Ran == IF log # <<>> /\ log[Len(log)] = "raise" THEN SubSeq(log, 1, Len(log) - 1) ELSE log

GateOrder == <<"gate1", "gate2", "gate3", "search", "gate4", "generate", "gate5", "gate6">>

Blank(q) == Falsy(q) \/ strip(q) = <<>>

Normalized(q) == strip(lower(q))

GatesAccept ==
    /\ is_policy_domain_query(user_query)
    /\ is_role_authorized(user_query, user_role)
    /\ should_retrieve_documents(user_query)

\* the earliest gate that rejects, judged from the inputs and the backends' answers
FirstFailingGate ==
    IF ~is_policy_domain_query(user_query) THEN "gate1"
    ELSE IF ~is_role_authorized(user_query, user_role) THEN "gate2"
    ELSE IF ~should_retrieve_documents(user_query) THEN "gate3"
    ELSE IF ~retrieval_result.sufficient THEN "gate4"
    ELSE IF generation_result.generation_status # "GENERATED" THEN "gate5"
    ELSE "gate6"

ReasonOfGate(g) ==
    CASE g = "gate1" -> "Query outside policy domain"
      [] g = "gate2" -> "User not authorized for this policy query"
      [] g = "gate3" -> "Query not suitable for document-based answering"
      [] g = "gate4" -> "Insufficient policy evidence"
      [] g = "gate5" -> "Model could not generate grounded answer"
      [] g = "gate6" -> verification_result.refusal_reason

\* C1: handle_user_query runs the gates in the order domain, role, retrieval
\* eligibility, evidence, generation, verification, each at most once, and stops
\* at the first that fails: a REFUSE carries the reason of the earliest failing
\* gate and that gate is the last one run; vector_store.search is called (at
\* most once) only when gates 1-3 all accepted, and llm_client.generate (at most
\* once) only after search returned evidence judged sufficient.
C1_GatesInOrderStopAtFirstFailure ==
    /\ Len(Ran) <= Len(GateOrder)
    /\ Ran = SubSeq(GateOrder, 1, Len(Ran))
    /\ InLog("search") => GatesAccept
    /\ InLog("generate") => (InLog("gate4") /\ retrieval_result.sufficient)
    /\ (pc = "returned" /\ result.decision = "REFUSE") =>
          /\ Ran[Len(Ran)] = FirstFailingGate
          /\ result.refusal_reason = ReasonOfGate(FirstFailingGate)

C1_Witness ==
    /\ pc = "returned"
    /\ result.refusal_reason = "Insufficient policy evidence"
    /\ log = <<"gate1", "gate2", "gate3", "search", "gate4">>

\* C2: whenever handle_user_query returns ANSWER, the Decision holds the
\* generated answer, the verifier's confidence score, and the evidence documents
\* of the retrieval as its supporting_documents field.
C2_AnswerCarriesSupportingDocuments ==
    (pc = "returned" /\ result.decision = "ANSWER") =>
        /\ result.answer = generation_result.answer
        /\ result.confidence_score = verification_result.confidence_score
        /\ "supporting_documents" \in DOMAIN result
        /\ result.supporting_documents = retrieval_result.documents

BackendUnavailableReasons == {"retrieval backend unavailable", "generation backend unavailable"}

\* C3 as stated: when the retrieval or the generation backend call fails, the
\* call ends with a REFUSE Decision whose reason indicates backend
\* unavailability, and never without a Decision.
C3_BackendFailureGivesRefuse ==
    (pc \in {"returned", "raised"} /\ InLog("raise")) =>
        /\ pc = "returned"
        /\ result.decision = "REFUSE"
        /\ result.refusal_reason \in BackendUnavailableReasons

\* C3 as amended: when the retrieval or the generation backend call raises, the
\* failure leaves handle_user_query uncaught: the call ends at that backend call
\* with no Decision (neither REFUSE nor ANSWER), and no later gate or backend
\* call runs.
C3_BackendFailurePropagates ==
    InLog("raise") =>
        /\ pc = "raised"
        /\ result = Unset
        /\ log[Len(log)] = "raise"
        /\ log[Len(log) - 1] \in {"search", "generate"}
        /\ Ran = SubSeq(GateOrder, 1, Len(Ran))

C3_Witness ==
    /\ pc = "raised"
    /\ log = <<"gate1", "gate2", "gate3", "search", "gate4", "generate", "raise">>

\* C4 as stated, read generously (the domain gate's reason names the query, the
\* access gate's reason names the role): a blank or missing query text, or an
\* unrecognized role, gives a REFUSE whose reason identifies the malformed
\* field, whatever the other input is.
C4_ReasonNamesMalformedField ==
    (pc = "returned" /\ (Blank(user_query) \/ user_role \notin KnownRoles)) =>
        /\ result.decision = "REFUSE"
        /\ Blank(user_query) => result.refusal_reason = "Query outside policy domain"
        /\ ~Blank(user_query) =>
               result.refusal_reason = "User not authorized for this policy query"

\* C4 as amended: a blank or missing query text gives REFUSE with the domain
\* gate's reason "Query outside policy domain" for every role; an unrecognized
\* role with a non-blank text gives REFUSE with the domain gate's reason when
\* the domain gate rejects the text and with "User not authorized for this
\* policy query" otherwise; in both cases the confidence is 0.0 and no backend
\* is called.
C4_MalformedInputRefusedByFirstGate ==
    (pc = "returned" /\ (Blank(user_query) \/ user_role \notin KnownRoles)) =>
        /\ result.decision = "REFUSE"
        /\ result.confidence_score = Zero
        /\ ~InLog("search") /\ ~InLog("generate")
        /\ result.refusal_reason =
               IF Blank(user_query) \/ ~is_policy_domain_query(user_query)
               THEN "Query outside policy domain"
               ELSE "User not authorized for this policy query"

C4_Witness ==
    /\ pc = "returned"
    /\ user_role = "contractor"
    /\ ~Blank(user_query)
    /\ result.refusal_reason = "User not authorized for this policy query"

\* scenario A: the query, the employee role, three documents scored 0.7, 0.65,
\* 0.6, and a response sharing at least 70% of its tokens with the document text
\* and half as long as it
ScenarioA ==
    /\ pc = "returned"
    /\ user_query = <<"W","h","a","t"," ","i","s"," ","t","h","e"," ","p","r","o","b","a","t","i","o","n"," ","p","e","r","i","o","d"," ","p","o","l","i","c","y","?">>
    /\ user_role = "employee"
    /\ InLog("gate5")
    /\ [i \in DOMAIN retrieval_result.documents |-> retrieval_result.documents[i].score]
           = <<70, 65, 60>>
    /\ RatLe(<<7, 10>>, overlap_score_of(response, retrieval_result.documents))
    /\ 2 * Len(response) = Len(doc_text_of(retrieval_result.documents))

\* C5 as stated: in scenario A handle_user_query returns ANSWER with a
\* confidence score of at least 0.7.
C5_ScenarioAAnswers ==
    ScenarioA => (result.decision = "ANSWER" /\ RatLe(<<7, 10>>, result.confidence_score))

\* C5 as amended: in scenario A with a response that is not the sentinel, the
\* confidence is 0.39 + 0.4 x overlap, and handle_user_query returns ANSWER
\* (confidence >= 0.7) exactly when the overlap is at least 0.775; for an overlap
\* from 0.7 up to 0.775 it returns REFUSE with "Grounding confidence below
\* threshold" and a confidence below 0.7.
C5_ScenarioAAnswersFromOverlap775 ==
    (ScenarioA /\ strip(response) # INSUFFICIENT_EVIDENCE) =>
        LET overlap == overlap_score_of(response, retrieval_result.documents) IN
        /\ RatEq(result.confidence_score, RatAdd(<<39, 100>>, RatMul(<<4, 10>>, overlap)))
        /\ (result.decision = "ANSWER") <=> RatLe(<<775, 1000>>, overlap)
        /\ result.decision = "ANSWER" => RatLe(<<7, 10>>, result.confidence_score)
        /\ result.decision # "ANSWER" =>
               /\ result.decision = "REFUSE"
               /\ result.refusal_reason = "Grounding confidence below threshold"
               /\ RatLt(result.confidence_score, <<7, 10>>)

C5_Witness ==
    /\ ScenarioA
    /\ RatLt(overlap_score_of(response, retrieval_result.documents), <<775, 1000>>)
    /\ result.decision = "REFUSE"

\* C6: verify_answer_grounding_and_confidence applies its rules in order, first
\* match wins: (1) an empty answer or the sentinel after trimming gives REFUSE,
\* confidence 0.0, "Model reported insufficient evidence"; (2) an empty document
\* token set gives REFUSE, confidence 0.0; (3) an answer longer than twice the
\* document text gives REFUSE with the overlap score as confidence; (4) otherwise
\* the confidence is 0.6 x evidence + 0.4 x overlap, REFUSE exactly when it is
\* below 0.7 and ANSWER with no reason otherwise (0.8 / 0.5 gives 0.68 REFUSE,
\* 0.9 / 0.8 gives 0.86 ANSWER).
C6_VerifyRulesInOrder ==
    (pc = "done") =>
        LET answer == args.generated_answer
            docs == args.evidence_documents
            evidence == args.evidence_score
            v == ret.value
            overlap == overlap_score_of(answer, docs)
            blended == RatAdd(RatMul(<<6, 10>>, evidence), RatMul(<<4, 10>>, overlap))
        IN  IF Falsy(answer) \/ strip(answer) = INSUFFICIENT_EVIDENCE
            THEN v = [final_decision |-> "REFUSE", confidence_score |-> Zero,
                      refusal_reason |-> "Model reported insufficient evidence"]
            ELSE IF split_set(doc_text_of(docs)) = {}
            THEN v.final_decision = "REFUSE" /\ RatEq(v.confidence_score, Zero)
            ELSE IF Len(answer) > 2 * Len(doc_text_of(docs))
            THEN v.final_decision = "REFUSE" /\ RatEq(v.confidence_score, overlap)
            ELSE /\ RatEq(v.confidence_score, blended)
                 /\ (v.final_decision = "REFUSE") <=> RatLt(v.confidence_score, <<7, 10>>)
                 /\ v.final_decision # "REFUSE" =>
                        (v.final_decision = "ANSWER" /\ v.refusal_reason = NoReason)
                 /\ (RatEq(evidence, <<8, 10>>) /\ RatEq(overlap, <<5, 10>>)) =>
                        (RatEq(v.confidence_score, <<68, 100>>) /\ v.final_decision = "REFUSE")
                 /\ (RatEq(evidence, <<9, 10>>) /\ RatEq(overlap, <<8, 10>>)) =>
                        (RatEq(v.confidence_score, <<86, 100>>) /\ v.final_decision = "ANSWER")

C6_Witness ==
    /\ pc = "done"
    /\ ~Falsy(args.generated_answer)
    /\ Len(args.generated_answer) > 2 * Len(doc_text_of(args.evidence_documents))
    /\ ret.value.refusal_reason = "Answer length exceeds supporting evidence"
    /\ RatLt(Zero, ret.value.confidence_score)
    /\ ~RatEq(ret.value.confidence_score,
              confidence_of(args.evidence_score,
                            overlap_score_of(args.generated_answer, args.evidence_documents)))

\* C7: is_role_authorized returns false for a pre_joining_candidate whenever the
\* normalized text contains an employee-only topic, even with a public-policy
\* topic in it; in every other case with a recognized role and a non-blank text
\* it returns true exactly when the text contains a public-policy topic.
C7_CandidateRestrictionFirst ==
    (pc = "done" /\ ret.fn = "is_role_authorized"
        /\ user_role \in {"employee", "pre_joining_candidate"} /\ ~Blank(user_query)) =>
        IF user_role = "pre_joining_candidate"
              /\ any_in(employee_only_topics, Normalized(user_query))
        THEN ret.value = FALSE
        ELSE ret.value = any_in(public_policy_topics, Normalized(user_query))

C7_Witness ==
    /\ pc = "done" /\ ret.fn = "is_role_authorized"
    /\ user_role = "pre_joining_candidate"
    /\ any_in(employee_only_topics, Normalized(user_query))
    /\ any_in(public_policy_topics, Normalized(user_query))
    /\ ret.value = FALSE

\* C8: is_policy_domain_query returns false for every text that contains a
\* rejection phrase, also when it contains an allowlist keyword; it returns true
\* exactly when the trimmed text is non-empty, contains no rejection phrase and
\* contains at least one allowlist keyword.
C8_RejectionBeforeAllowlist ==
    (pc = "done" /\ ret.fn = "is_policy_domain_query") =>
        /\ (~Blank(user_query) /\ any_in(rejection_signals, Normalized(user_query)))
               => ret.value = FALSE
        /\ (ret.value = TRUE) <=>
               /\ ~Blank(user_query)
               /\ ~any_in(rejection_signals, Normalized(user_query))
               /\ any_in(policy_keywords, Normalized(user_query))

C8_Witness ==
    /\ pc = "done" /\ ret.fn = "is_policy_domain_query"
    /\ ~Blank(user_query)
    /\ any_in(rejection_signals, Normalized(user_query))
    /\ any_in(policy_keywords, Normalized(user_query))
    /\ ret.value = FALSE

\* C9: retrieve_and_evaluate_evidence marks the evidence sufficient exactly when
\* the backend returned at least 2 documents and one of them scores >= 0.6 (one
\* document scored 0.9 is insufficient); an empty result gives evidence score
\* 0.0, sufficient false and no documents; otherwise the evidence score is the
\* arithmetic mean of all returned scores.
C9_SufficiencyNeedsBoth ==
    (pc = "done") =>
        LET docs == args.retrieved_docs
            v == ret.value
        IN  /\ v.sufficient <=> (Len(docs) >= 2 /\ \E i \in DOMAIN docs : docs[i].score >= 60)
            /\ docs = <<>> =>
                   v = [documents |-> <<>>, evidence_score |-> Zero, sufficient |-> FALSE]
            /\ docs # <<>> =>
                   RatEq(RatMul(v.evidence_score, <<Len(docs), 1>>),
                         <<sum([i \in DOMAIN docs |-> docs[i].score]), 100>>)
            /\ (Len(docs) = 1 /\ docs[1].score = 90) => ~v.sufficient

C9_Witness ==
    /\ pc = "done"
    /\ Len(args.retrieved_docs) = 1
    /\ args.retrieved_docs[1].score = 90
    /\ ret.value.sufficient = FALSE

\* C10: a Decision handle_user_query returns is ANSWER only if gates 1-3 all
\* accepted, the retrieval returned at least 2 documents with a maximal score
\* >= 0.6, the generation response was non-empty and not the sentinel, and the
\* confidence score is >= 0.7; an ANSWER has an answer and no refusal reason, a
\* REFUSE has no answer and a refusal reason.
C10_AnswerOnlyThroughAllGates ==
    (pc = "returned") =>
        /\ result.decision \in {"ANSWER", "REFUSE"}
        /\ result.decision = "ANSWER" =>
               /\ GatesAccept
               /\ Len(retrieval_result.documents) >= 2
               /\ \E i \in DOMAIN retrieval_result.documents :
                      retrieval_result.documents[i].score >= 60
               /\ ~Falsy(response)
               /\ strip(response) # INSUFFICIENT_EVIDENCE
               /\ RatLe(<<7, 10>>, result.confidence_score)
               /\ result.answer # None
               /\ result.refusal_reason = NoReason
        /\ result.decision = "REFUSE" =>
               /\ result.answer = None
               /\ result.refusal_reason # NoReason

C10_Witness ==
    /\ pc = "returned"
    /\ result.decision = "ANSWER"
    /\ Len(retrieval_result.documents) >= 2
    /\ RatLe(<<7, 10>>, result.confidence_score)

=============================================================================
